---- MODULE Spec2Model ----
(***************************************************************************)
(* Grey Wolf Optimizer family (mealpy/swarm_based/GWO.py): the per-epoch   *)
(* evolve() of BaseGWO, RW_GWO, GWO_WOA_M and GWO_WOA_O, run by the        *)
(* Optimizer's epoch loop.                                                 *)
(*                                                                         *)
(* Positions are one-dimensional (n_dims = 1) and held on an integer grid; *)
(* a real-valued update formula is evaluated over a common denominator and *)
(* rounded down to the grid once.  A uniform draw is a numerator from      *)
(* Uniform over the denominator UDen.  Each loop iteration of evolve() is  *)
(* one step; pc and idx record the position inside the running call.       *)
(***************************************************************************)
EXTENDS Integers, Sequences, FiniteSets, TLC

\* ---------------------------------------------------------------- bounds
PopSize == 3
MaxEpoch == 2
UDen == 4

\* ------------------------------------------------------- problem and draws
\* self.problem.lb, self.problem.ub
lb == -1
ub == 1
Positions == lb..ub
\* numerators of np.random.uniform() / np.random.rand(), values in [0, 1)
Uniform == {1, 3}
\* np.random.standard_cauchy(): heavy-tailed, either sign
Cauchy == {0 - 3, 0 - 1, 0, 1, 3}
\* the spiral factor w * exp(b*l) * cos(2*pi*l) of GWO_WOA_O, by sign
Spiral == {0 - 1, 0, 1}

ID_POS == 1
ID_TAR == 2
None == 0 - 1
AVAILABLE_MODES == {"process", "thread", "swarm"}
Strategies == {"BaseGWO", "RW_GWO", "GWO_WOA_M", "GWO_WOA_O"}
NoPos == lb - 100

VARIABLES
  strategy,     \* the class of the optimizer
  mode,         \* self.mode
  minmax,       \* self.problem.minmax
  epoch_total,  \* self.epoch
  epoch,        \* the argument of the next / running evolve(epoch)
  pc,           \* "idle" | "leaders" | "leaders_merge" | "loop" | "merge" | "trim" | "done" | "raised"
  idx,          \* loop index of the running loop
  pop,          \* self.pop
  g_best,       \* self.g_best
  list_best,    \* list_best / leaders of the running call
  leaders_new,  \* RW_GWO: leaders_new
  pop_new,      \* pop_new of the running call
  pos_new,      \* pos_new of the last iteration
  p,            \* GWO_WOA: numerator of the last branch probability
  nfe,          \* objective evaluations made by the running / last call
  pop0,         \* BaseGWO: self.pop at the entry of the running call
  err,          \* the exception that ended the run, "" if none
  on_mismatch   \* the positional merge given a shorter candidate list: "raise"
                \* rejects it, "keep" merges the leading slots; fixed for a run

vars == <<strategy, mode, minmax, epoch_total, epoch, pc, idx, pop, g_best,
          list_best, leaders_new, pop_new, pos_new, p, nfe, pop0, err,
          on_mismatch>>

\* ------------------------------------------------------------ collaborators
Abs(x) == IF x < 0 THEN 0 - x ELSE x

fit_func(position) == position * position

get_target_wrapper(position) == fit_func(position)

\* a is strictly fitter than b under the problem's sense
compare_agent(a, b) ==
  IF minmax = "min" THEN a[ID_TAR] < b[ID_TAR] ELSE a[ID_TAR] > b[ID_TAR]

\* the fitter of a, b; the first argument on an exact tie
get_better_solution(a, b) == IF compare_agent(b, a) THEN b ELSE a

\* the possible results of repairing a position: kept when within bounds,
\* otherwise redrawn uniformly from [lb, ub]
amend_position(position) ==
  IF lb <= position /\ position <= ub THEN {position} ELSE Positions

update_target_wrapper_population(cands) ==
  [i \in 1..Len(cands) |-> <<cands[i][ID_POS], get_target_wrapper(cands[i][ID_POS])>>]

\* positional merge, slot by slot, into a population of the same size: the
\* candidate replaces the old member only when strictly fitter.  A slot
\* without a candidate keeps its member (lengths differ only where the
\* caller passes a partial list; see on_mismatch)
greedy_selection_population(pop_old, pop_cand) ==
  [i \in 1..Len(pop_old) |->
     IF i <= Len(pop_cand) /\ compare_agent(pop_cand[i], pop_old[i])
     THEN pop_cand[i] ELSE pop_old[i]]

RECURSIVE InsertSorted(_, _)
InsertSorted(x, s) ==
  IF s = <<>> THEN <<x>>
  ELSE IF compare_agent(x, Head(s)) THEN <<x>> \o s
  ELSE <<Head(s)>> \o InsertSorted(x, Tail(s))

\* stable sort, best first
RECURSIVE SortedPop(_)
SortedPop(s) ==
  IF s = <<>> THEN <<>>
  ELSE InsertSorted(s[Len(s)], SortedPop(SubSeq(s, 1, Len(s) - 1)))

get_special_solutions(population, best) == SubSeq(SortedPop(population), 1, best)

get_sorted_strim_population(population, size) == SubSeq(SortedPop(population), 1, size)

\* ------------------------------------------------------------ coefficients
\* 2 - 2 * epoch / (self.epoch - 1), as a fraction; the caller raises when den = 0
LinearDecay(t) == [num |-> 2 * (epoch_total - 1) - 2 * t, den |-> epoch_total - 1]

\* 2 * (1 - epoch / (2 * self.epoch))
HalfDecay(t) == [num |-> 2 * epoch_total - t, den |-> epoch_total]

\* D * (leader - A * |C * ref - x|) with A = a * (2 u - 1), C = 2 v,
\* D = a.den * UDen * UDen
Encircle(leader, ref, x, a, u, v) ==
  leader * a.den * UDen * UDen
    - a.num * (2 * u - UDen) * Abs(2 * v * ref - UDen * x)

\* (X1 + X2 + X3) / 3.0
Mean3(n1, n2, n3, a) == (n1 + n2 + n3) \div (3 * a.den * UDen * UDen)

BestOf(population) == get_special_solutions(population, 1)[1]

\* lines 55, 131, 226, 327: self.nfe_per_epoch
nfe_per_epoch == IF strategy = "RW_GWO" THEN PopSize + 3 ELSE PopSize

\* ------------------------------------------------------------------- Init
\* evaluated populations of pop_size members within bounds: one spread over
\* the interval, one with every member at the upper bound
InitPops ==
  { [i \in 1..PopSize |->
       <<lb + (i % (ub - lb + 1)), get_target_wrapper(lb + (i % (ub - lb + 1)))>>],
    [i \in 1..PopSize |-> <<ub, get_target_wrapper(ub)>>] }

Init ==
  /\ strategy \in Strategies
  /\ mode \in {"single", "thread"}
  /\ minmax \in {"min", "max"}
  /\ epoch_total \in {1, MaxEpoch}   \* the smallest validated total and the largest modelled
  /\ epoch = 0
  /\ pc = "idle"
  /\ idx = 0
  /\ pop \in InitPops
  /\ g_best = BestOf(pop)
  /\ list_best = <<>>
  /\ leaders_new = <<>>
  /\ pop_new = <<>>
  /\ pos_new = NoPos
  /\ p = 0
  /\ nfe = 0
  /\ pop0 = <<>>
  /\ err = ""
  /\ on_mismatch \in IF strategy \in {"GWO_WOA_M", "GWO_WOA_O"} /\ mode \in AVAILABLE_MODES
                    THEN {"raise", "keep"} ELSE {"raise"}

\* the call raises: the exception leaves evolve() and ends the run
Raise(e) ==
  /\ pc' = "raised"
  /\ err' = e
  /\ nfe' = 0
  /\ UNCHANGED <<strategy, mode, minmax, epoch_total, epoch, idx, pop, g_best,
                 list_best, leaders_new, pop_new, pos_new, p, pop0, on_mismatch>>

\* ---------------------------------------------------------------- BaseGWO
\* the position stored without the repair
BaseGWO_amend_unrepaired(raw) == {raw}

\* the candidate stored whatever its fitness
BaseGWO_select_always(cand, old) == cand

\* line 77: the repaired position of a computed one
BaseGWO_amend(raw) == amend_position(raw)

\* line 81: the member kept in the slot
BaseGWO_select(cand, old) == get_better_solution(cand, old)

\* lines 66-69: the coefficient a, the three leaders, the empty candidate list
BaseGWO_evolve ==
  /\ pc = "idle"
  /\ strategy = "BaseGWO"
  /\ epoch < epoch_total
  /\ IF epoch_total - 1 = 0
     THEN Raise("ZeroDivisionError")
     ELSE /\ list_best' = get_special_solutions(pop, 3)
          /\ pop_new' = <<>>
          /\ idx' = 0
          /\ pc' = "loop"
          /\ nfe' = 0
          /\ pop0' = pop
          /\ pos_new' = NoPos
          /\ UNCHANGED <<strategy, mode, minmax, epoch_total, epoch, pop, g_best,
                         leaders_new, p, err, on_mismatch>>

\* lines 70-81: one iteration of the candidate loop
BaseGWO_step ==
  /\ pc = "loop"
  /\ strategy = "BaseGWO"
  /\ idx < PopSize
  /\ \E u1, u2, u3, v1, v2, v3 \in Uniform :
       LET a == LinearDecay(epoch)
           x == pop[idx + 1][ID_POS]
           X1 == Encircle(list_best[1][ID_POS], list_best[1][ID_POS], x, a, u1, v1)
           X2 == Encircle(list_best[2][ID_POS], list_best[2][ID_POS], x, a, u2, v2)
           X3 == Encircle(list_best[3][ID_POS], list_best[3][ID_POS], x, a, u3, v3)
       IN \E pn \in BaseGWO_amend(Mean3(X1, X2, X3, a)) :
            /\ pos_new' = pn
            /\ pop_new' = Append(pop_new, <<pn, None>>)
            /\ IF mode \notin AVAILABLE_MODES
               THEN /\ nfe' = nfe + 1
                    /\ pop' = [pop EXCEPT ![idx + 1] =
                                 BaseGWO_select(<<pn, get_target_wrapper(pn)>>, pop[idx + 1])]
               ELSE UNCHANGED <<nfe, pop>>
  /\ idx' = idx + 1
  /\ pc' = IF idx + 1 = PopSize THEN "merge" ELSE "loop"
  /\ UNCHANGED <<strategy, mode, minmax, epoch_total, epoch, g_best, list_best,
                 leaders_new, p, pop0, err, on_mismatch>>

\* lines 82-84: the batch evaluation and the positional merge, then return
BaseGWO_merge ==
  /\ pc = "merge"
  /\ strategy = "BaseGWO"
  /\ IF mode \in AVAILABLE_MODES
     THEN /\ pop_new' = update_target_wrapper_population(pop_new)
          /\ nfe' = nfe + Len(pop_new)
          /\ pop' = greedy_selection_population(pop, pop_new')
     ELSE UNCHANGED <<pop_new, nfe, pop>>
  /\ pc' = "done"
  /\ UNCHANGED <<strategy, mode, minmax, epoch_total, epoch, idx, g_best, list_best,
                 leaders_new, pos_new, p, pop0, err, on_mismatch>>

\* ----------------------------------------------------------------- RW_GWO
\* line 150: leader + a * standard_cauchy
RandomWalk(leader, a, c) == leader + ((a.num * c) \div a.den)

\* the merged population sorted but not cut back to pop_size
RW_GWO_trim_untrimmed(population, leaders) == SortedPop(population \o leaders)

\* the population sorted without the refreshed leaders
RW_GWO_trim_no_leaders(population, leaders) ==
  get_sorted_strim_population(population, PopSize)

\* line 180: the population after the elitist merge with the refreshed leaders
RW_GWO_trim(population, leaders) ==
  get_sorted_strim_population(population \o leaders, PopSize)

\* line 176: the member kept in the slot
RW_GWO_select(cand, old) == get_better_solution(cand, old)

\* lines 142-148: the coefficients, the three leaders, the empty leader list
RW_GWO_evolve ==
  /\ pc = "idle"
  /\ strategy = "RW_GWO"
  /\ epoch < epoch_total
  /\ IF epoch_total - 1 = 0
     THEN Raise("ZeroDivisionError")
     ELSE /\ list_best' = get_special_solutions(pop, 3)
          /\ leaders_new' = <<>>
          /\ pop_new' = <<>>
          /\ idx' = 0
          /\ pc' = "leaders"
          /\ nfe' = 0
          /\ pos_new' = NoPos
          /\ UNCHANGED <<strategy, mode, minmax, epoch_total, epoch, pop, g_best,
                         p, pop0, err, on_mismatch>>

\* lines 149-155: the random walk of one leader
RW_GWO_leader_step ==
  /\ pc = "leaders"
  /\ strategy = "RW_GWO"
  /\ idx < Len(list_best)
  /\ \E c \in Cauchy :
       \E pn \in amend_position(RandomWalk(list_best[idx + 1][ID_POS], LinearDecay(epoch), c)) :
         /\ pos_new' = pn
         /\ leaders_new' = Append(leaders_new, <<pn, None>>)
         /\ IF mode \notin AVAILABLE_MODES
            THEN /\ nfe' = nfe + 1
                 /\ list_best' = [list_best EXCEPT ![idx + 1] =
                      get_better_solution(<<pn, get_target_wrapper(pn)>>, list_best[idx + 1])]
            ELSE UNCHANGED <<nfe, list_best>>
  /\ idx' = idx + 1
  /\ pc' = IF idx + 1 = Len(list_best) THEN "leaders_merge" ELSE "leaders"
  /\ UNCHANGED <<strategy, mode, minmax, epoch_total, epoch, pop, g_best, pop_new,
                 p, pop0, err, on_mismatch>>

\* lines 156-161: the batch evaluation and merge of the leaders
RW_GWO_leader_merge ==
  /\ pc = "leaders_merge"
  /\ strategy = "RW_GWO"
  /\ IF mode \in AVAILABLE_MODES
     THEN /\ leaders_new' = update_target_wrapper_population(leaders_new)
          /\ nfe' = nfe + Len(leaders_new)
          /\ list_best' = greedy_selection_population(list_best, leaders_new')
     ELSE UNCHANGED <<leaders_new, nfe, list_best>>
  /\ pop_new' = <<>>
  /\ idx' = 0
  /\ pc' = "loop"
  /\ UNCHANGED <<strategy, mode, minmax, epoch_total, epoch, pop, g_best, pos_new,
                 p, pop0, err, on_mismatch>>

\* lines 162-176: one iteration of the candidate loop
RW_GWO_step ==
  /\ pc = "loop"
  /\ strategy = "RW_GWO"
  /\ idx < PopSize
  /\ \E u1, u2, u3, v1, v2, v3 \in Uniform :
       LET b == LinearDecay(epoch)
           x == pop[idx + 1][ID_POS]
           X1 == Encircle(list_best[1][ID_POS], g_best[ID_POS], x, b, u1, v1)
           X2 == Encircle(list_best[2][ID_POS], g_best[ID_POS], x, b, u2, v2)
           X3 == Encircle(list_best[3][ID_POS], g_best[ID_POS], x, b, u3, v3)
       IN \E pn \in amend_position(Mean3(X1, X2, X3, b)) :
            /\ pos_new' = pn
            /\ pop_new' = Append(pop_new, <<pn, None>>)
            /\ IF mode \notin AVAILABLE_MODES
               THEN /\ nfe' = nfe + 1
                    /\ pop' = [pop EXCEPT ![idx + 1] =
                                 RW_GWO_select(<<pn, get_target_wrapper(pn)>>, pop[idx + 1])]
               ELSE UNCHANGED <<nfe, pop>>
  /\ idx' = idx + 1
  /\ pc' = IF idx + 1 = PopSize THEN "merge" ELSE "loop"
  /\ UNCHANGED <<strategy, mode, minmax, epoch_total, epoch, g_best, list_best,
                 leaders_new, p, pop0, err, on_mismatch>>

\* lines 177-179: the batch evaluation and the positional merge
RW_GWO_merge ==
  /\ pc = "merge"
  /\ strategy = "RW_GWO"
  /\ IF mode \in AVAILABLE_MODES
     THEN /\ pop_new' = update_target_wrapper_population(pop_new)
          /\ nfe' = nfe + Len(pop_new)
          /\ pop' = greedy_selection_population(pop, pop_new')
     ELSE UNCHANGED <<pop_new, nfe, pop>>
  /\ pc' = "trim"
  /\ UNCHANGED <<strategy, mode, minmax, epoch_total, epoch, idx, g_best, list_best,
                 leaders_new, pos_new, p, pop0, err, on_mismatch>>

\* line 180: the elitist merge of the population with the refreshed leaders
RW_GWO_sorted_strim ==
  /\ pc = "trim"
  /\ strategy = "RW_GWO"
  /\ pop' = RW_GWO_trim(pop, list_best)
  /\ pc' = "done"
  /\ UNCHANGED <<strategy, mode, minmax, epoch_total, epoch, idx, g_best, list_best,
                 leaders_new, pop_new, pos_new, p, nfe, pop0, err, on_mismatch>>

\* ---------------------------------------------------- GWO_WOA_M, GWO_WOA_O
\* every iteration taking the else branch
Exploit_always(pd) == TRUE

\* lines 249/258, 354/363: the else branch of "if p < 0.5"
Exploit(pd) == ~(2 * pd < UDen)

\* lines 250, 355: np.abs(A) < 1 with A = 2 * a * r1 - a
AbsALessThanOne(a, r1) == Abs(a.num * (2 * r1 - UDen)) < a.den * UDen

\* lines 251-252, 256-257: ref - A * |C * ref - x|, not repaired
WOA_M_encircle(ref, x, a, r1, r2) ==
  Encircle(ref, ref, x, a, r1, r2) \div (a.den * UDen * UDen)

\* lines 356-357: g_best - A * (r3 * |C * g_best - x|), not repaired
WOA_O_encircle(ref, x, a, r1, r2, r3) ==
  (ref * a.den * UDen * UDen * UDen
     - a.num * (2 * r1 - UDen) * r3 * Abs(2 * r2 * ref - UDen * x))
    \div (a.den * UDen * UDen * UDen)

\* lines 361-362: x_rand - A * (spiral * |C1 * leader - x|), not repaired
WOA_O_spiral(x_rand, leader, x, a, r1, c1, s) ==
  (x_rand * a.den * UDen * UDen
     - a.num * (2 * r1 - UDen) * s * Abs(2 * c1 * leader - UDen * x))
    \div (a.den * UDen * UDen)

\* lines 259-270, 364-375: the three-leader mean; X1 takes C2 and X2 takes C1
WOA_mean(leaders, x, a, u1, u2, u3, c1, c2, c3) ==
  Mean3(Encircle(leaders[1][ID_POS], leaders[1][ID_POS], x, a, u1, c2),
        Encircle(leaders[2][ID_POS], leaders[2][ID_POS], x, a, u2, c1),
        Encircle(leaders[3][ID_POS], leaders[3][ID_POS], x, a, u3, c3), a)

\* lines 230-233: a (a2 is read only by l, which nothing reads), the leaders
GWO_WOA_M_evolve ==
  /\ pc = "idle"
  /\ strategy = "GWO_WOA_M"
  /\ epoch < epoch_total
  /\ IF epoch_total - 1 = 0
     THEN Raise("ZeroDivisionError")
     ELSE /\ list_best' = get_special_solutions(pop, 3)
          /\ pop_new' = <<>>
          /\ idx' = 0
          /\ pc' = "loop"
          /\ nfe' = 0
          /\ pos_new' = NoPos
          /\ UNCHANGED <<strategy, mode, minmax, epoch_total, epoch, pop, g_best,
                         leaders_new, p, pop0, err, on_mismatch>>

\* lines 333-335: a, the leaders
GWO_WOA_O_evolve ==
  /\ pc = "idle"
  /\ strategy = "GWO_WOA_O"
  /\ epoch < epoch_total
  /\ list_best' = get_special_solutions(pop, 3)
  /\ pop_new' = <<>>
  /\ idx' = 0
  /\ pc' = "loop"
  /\ nfe' = 0
  /\ pos_new' = NoPos
  /\ UNCHANGED <<strategy, mode, minmax, epoch_total, epoch, pop, g_best,
                 leaders_new, p, pop0, err, on_mismatch>>

\* lines 249-279, 354-384: the rest of one iteration once pos_new of a
\* p < 0.5 branch (raw) or the three-leader mean (mean) is computed: the
\* repair, the append and the incremental replacement of the else branch,
\* then the batch block, which sits inside the loop
WOA_iteration(pd, raw, mean) ==
  /\ p' = pd
  /\ \E pn \in IF Exploit(pd) THEN amend_position(mean) ELSE {raw} :
       LET appended == IF Exploit(pd) THEN Append(pop_new, <<pn, None>>) ELSE pop_new
           single == mode \notin AVAILABLE_MODES
           slot == IF single /\ Exploit(pd)
                   THEN [pop EXCEPT ![idx + 1] =
                           get_better_solution(<<pn, get_target_wrapper(pn)>>, pop[idx + 1])]
                   ELSE pop
       IN /\ pos_new' = pn
          /\ IF single
             THEN /\ pop_new' = appended
                  /\ nfe' = IF Exploit(pd) THEN nfe + 1 ELSE nfe
                  /\ pop' = slot
                  /\ idx' = idx + 1
                  /\ pc' = IF idx + 1 = PopSize THEN "done" ELSE "loop"
                  /\ err' = err
             ELSE /\ pop_new' = update_target_wrapper_population(appended)
                  /\ nfe' = nfe + Len(appended)
                  /\ IF Len(appended) # Len(pop) /\ on_mismatch = "raise"
                     THEN /\ pc' = "raised"
                          /\ err' = "LengthMismatch"
                          /\ UNCHANGED <<pop, idx>>
                     ELSE /\ pop' = greedy_selection_population(pop, pop_new')
                          /\ idx' = idx + 1
                          /\ pc' = IF idx + 1 = PopSize THEN "done" ELSE "loop"
                          /\ err' = err
  /\ UNCHANGED <<strategy, mode, minmax, epoch_total, epoch, g_best, list_best,
                 leaders_new, pop0, on_mismatch>>

\* lines 234-279: one iteration of the candidate loop of GWO_WOA_M
GWO_WOA_M_step ==
  /\ pc = "loop"
  /\ strategy = "GWO_WOA_M"
  /\ idx < PopSize
  /\ \E pd \in Uniform :
       LET a == LinearDecay(epoch)
           x == pop[idx + 1][ID_POS]
       IN IF ~Exploit(pd)
          THEN \E r1, r2 \in Uniform :
                 IF AbsALessThanOne(a, r1)
                 THEN WOA_iteration(pd, WOA_M_encircle(g_best[ID_POS], x, a, r1, r2), NoPos)
                 ELSE \E x_rand \in Positions :
                        WOA_iteration(pd, WOA_M_encircle(x_rand, x, a, r1, r2), NoPos)
          ELSE \E u1, u2, u3, c1, c2, c3 \in Uniform :
                 WOA_iteration(pd, NoPos, WOA_mean(list_best, x, a, u1, u2, u3, c1, c2, c3))

\* lines 336-384: one iteration of the candidate loop of GWO_WOA_O
GWO_WOA_O_step ==
  /\ pc = "loop"
  /\ strategy = "GWO_WOA_O"
  /\ idx < PopSize
  /\ \E pd \in Uniform :
       LET a == HalfDecay(epoch)
           x == pop[idx + 1][ID_POS]
       IN IF ~Exploit(pd)
          THEN \E r1 \in Uniform :
                 IF AbsALessThanOne(a, r1)
                 THEN \E r2, r3 \in Uniform :
                        WOA_iteration(pd, WOA_O_encircle(g_best[ID_POS], x, a, r1, r2, r3), NoPos)
                 ELSE \E x_rand \in Positions, c1 \in Uniform, s \in Spiral :
                        WOA_iteration(pd, WOA_O_spiral(x_rand, list_best[1][ID_POS], x, a, r1, c1, s), NoPos)
          ELSE \E u1, u2, u3, c1, c2, c3 \in Uniform :
                 WOA_iteration(pd, NoPos, WOA_mean(list_best, x, a, u1, u2, u3, c1, c2, c3))

\* ----------------------------------------------------------------- driver
\* the epoch loop of Optimizer.solve: after evolve(epoch) returns, the global
\* best is replaced when the population holds a strictly fitter member; the
\* locals of the returned call are gone
update_global_best_solution ==
  /\ pc = "done"
  /\ g_best' = IF compare_agent(BestOf(pop), g_best) THEN BestOf(pop) ELSE g_best
  /\ epoch' = epoch + 1
  /\ pc' = "idle"
  /\ idx' = 0
  /\ list_best' = <<>>
  /\ leaders_new' = <<>>
  /\ pop_new' = <<>>
  /\ pos_new' = NoPos
  /\ p' = 0
  /\ nfe' = 0
  /\ UNCHANGED <<strategy, mode, minmax, epoch_total, pop, pop0, err, on_mismatch>>

Next ==
  \/ BaseGWO_evolve
  \/ BaseGWO_step
  \/ BaseGWO_merge
  \/ RW_GWO_evolve
  \/ RW_GWO_leader_step
  \/ RW_GWO_leader_merge
  \/ RW_GWO_step
  \/ RW_GWO_merge
  \/ RW_GWO_sorted_strim
  \/ GWO_WOA_M_evolve
  \/ GWO_WOA_M_step
  \/ GWO_WOA_O_evolve
  \/ GWO_WOA_O_step
  \/ update_global_best_solution

Spec == Init /\ [][Next]_vars

\* -------------------------------------------------------------- properties
Batch == mode \in AVAILABLE_MODES
WOA == strategy \in {"GWO_WOA_M", "GWO_WOA_O"}
InBounds(sol) == lb <= sol[ID_POS] /\ sol[ID_POS] <= ub
Evaluated(sol) == sol[ID_TAR] = get_target_wrapper(sol[ID_POS])

\* C1: in every strategy and both modes the population has exactly pop_size
\* members, each of them evaluated, before, during and after every evolve
\* call
C1_PopulationSize ==
  /\ Len(pop) = PopSize
  /\ \A i \in 1..Len(pop) : Evaluated(pop[i])

\* a second RW_GWO call in batch mode has returned after cutting the
\* pop_size + 3 merged members back
C1_Witness ==
  /\ strategy = "RW_GWO"
  /\ Batch
  /\ pc = "done"
  /\ epoch = 1
  /\ Len(pop_new) + Len(list_best) = PopSize + 3

\* C2: every member of the population, every leader and every candidate of
\* the candidate lists lies within [lb, ub]
C2_Boundary ==
  /\ \A i \in 1..Len(pop) : InBounds(pop[i])
  /\ \A i \in 1..Len(list_best) : InBounds(list_best[i])
  /\ \A i \in 1..Len(leaders_new) : InBounds(leaders_new[i])
  /\ \A i \in 1..Len(pop_new) : InBounds(pop_new[i])
  /\ InBounds(g_best)

\* a BaseGWO call has returned with a slot holding a new position
C2_Witness ==
  /\ strategy = "BaseGWO"
  /\ pc = "done"
  /\ \E i \in 1..PopSize : pop[i][ID_POS] # pop0[i][ID_POS]

\* every member before the step has a member after it that is not worse
C3_Step ==
  /\ pop' = pop \/ \A i \in 1..Len(pop) : \E j \in 1..Len(pop') : ~compare_agent(pop[i], pop'[j])
  /\ ~compare_agent(g_best, g_best')

\* C3: no step makes the best fitness of the population, or the tracked
\* global best, worse
C3_Elitism == [][C3_Step]_vars

\* a BaseGWO call has returned with a best member strictly fitter than at entry
C3_Witness ==
  /\ strategy = "BaseGWO"
  /\ pc = "done"
  /\ compare_agent(BestOf(pop), BestOf(pop0))

\* C4: with epoch_total = 1 no evolve call raises a division error
C4_NoDivisionError == epoch_total = 1 => err # "ZeroDivisionError"

C5_Step ==
  pc \in {"loop", "merge"} =>
    \A i \in 1..PopSize : pop'[i] # pop[i] => compare_agent(pop'[i], pop[i])

\* C5: a loop iteration or a positional merge changes a slot only to a
\* strictly fitter member; on an exact tie the incumbent stays
C5_StrictReplacement == [][C5_Step]_vars

C6_Step == (Batch /\ pc = "loop") => (pop' = pop /\ nfe' = nfe)

\* C6: in batch mode no iteration of the candidate loop evaluates a candidate
\* or changes the population: evaluation and merge come after the last
\* candidate is generated
C6_BatchAfterGeneration == [][C6_Step]_vars

\* the members of r are members of c taken at distinct places, and no member
\* of c left out is strictly fitter than one taken
BestMembersOf(r, c) ==
  \E S \in SUBSET (1..Len(c)) :
    /\ Cardinality(S) = Len(r)
    /\ \A i \in 1..Len(r) :
         Cardinality({k \in 1..Len(r) : r[k] = r[i]})
           = Cardinality({j \in S : c[j] = r[i]})
    /\ \A j \in (1..Len(c)) \ S : \A k \in S : ~compare_agent(c[j], c[k])

C7_TrimStep ==
  (strategy = "RW_GWO" /\ pc = "trim") =>
    /\ Len(pop') = PopSize
    /\ Len(pop \o list_best) = PopSize + 3
    /\ BestMembersOf(pop', pop \o list_best)
    /\ \A i \in 1..(PopSize - 1) : ~compare_agent(pop'[i + 1], pop'[i])

C7_LeaderStep ==
  (strategy = "RW_GWO" /\ pc \in {"leaders", "leaders_merge"}) =>
    \A i \in 1..Len(list_best) : ~compare_agent(list_best[i], list_best'[i])

\* C7: the elitist merge of RW_GWO leaves the best pop_size members of the
\* updated population together with the three refreshed leaders, best first,
\* and no leader is refreshed into a worse one
C7_ElitistMerge == [][C7_TrimStep /\ C7_LeaderStep]_vars

\* an RW_GWO call has returned with a leader that took its random-walk
\* position, a position no candidate of the population update has, and is a
\* member of the population
C7_Witness ==
  /\ strategy = "RW_GWO"
  /\ pc = "done"
  /\ \E i \in 1..Len(list_best) :
       /\ leaders_new[i][ID_POS] = list_best[i][ID_POS]
       /\ \E j \in 1..PopSize : pop[j] = list_best[i]
       /\ \A j \in 1..Len(pop_new) : pop_new[j][ID_POS] # list_best[i][ID_POS]

C8_Step ==
  (WOA /\ pc = "loop" /\ 2 * p' < UDen) =>
    /\ pop' = pop
    /\ Len(pop_new') = Len(pop_new)
    /\ (~Batch) => (nfe' = nfe /\ pop_new' = pop_new)

\* C8: an iteration of GWO_WOA_M or GWO_WOA_O whose p is below 0.5 adds no
\* candidate and leaves the population unchanged; in incremental mode it
\* evaluates nothing
C8_LowBranchFrame == [][C8_Step]_vars

\* an iteration with p below 0.5 has computed a position outside the bounds
\* and left it unrepaired
C8_Witness ==
  /\ WOA
  /\ pc = "loop"
  /\ idx > 0
  /\ 2 * p < UDen
  /\ pos_new # NoPos
  /\ ~(lb <= pos_new /\ pos_new <= ub)

\* C9: an incremental BaseGWO call reads every slot before it writes it and
\* returns the population a batch call returns from the same population and
\* the same draws
C9_ModeEquivalence ==
  (strategy = "BaseGWO" /\ ~Batch) =>
    /\ pc = "loop" => \A i \in (idx + 1)..PopSize : pop[i] = pop0[i]
    /\ pc = "done" =>
         pop = greedy_selection_population(pop0, update_target_wrapper_population(pop_new))

\* C10: a returned evolve call has made exactly nfe_per_epoch evaluations
C10_Evaluations == pc = "done" => nfe = nfe_per_epoch

====
